---- MODULE Spec2Model ----
(***************************************************************************)
(* Model of the Indodax MCP server (src/server.py): module initialisation  *)
(* (credential loading), the signed request dispatcher _private_post, the  *)
(* public fetcher _public_get and the tool adapters that delegate to them. *)
(*                                                                         *)
(* Python values are records [t, s, n]: t is the type tag, s the           *)
(* characters of a str (a sequence of one-character strings), n the number *)
(* of an int or of an integral float.  A payload dict is a sequence of     *)
(* <<key, value>> pairs in insertion order.  Text that goes on the wire    *)
(* (body, URL) is a TLA+ string.                                           *)
(***************************************************************************)
EXTENDS Integers, Sequences, FiniteSets, TLC

\* ------------------------------------------------------------------------
\* Bounds of the model
\* ------------------------------------------------------------------------
\* number of tool invocations that may be in flight together
NumInv == 2
\* number of times the wall clock advances
MaxTicks == 2

\* ------------------------------------------------------------------------
\* Python values
\* ------------------------------------------------------------------------
StrV(chars) == [t |-> "str", s |-> chars, n |-> 0]
IntV(k) == [t |-> "int", s |-> <<>>, n |-> k]
FloatV(k) == [t |-> "float", s |-> <<>>, n |-> k]
None == [t |-> "none", s |-> <<>>, n |-> 0]
\* a parameter the caller left out of the call
Omitted == [t |-> "omitted", s |-> <<>>, n |-> 0]

\* a parameter takes its declared default when the caller omits it
Bind(v, default) == IF v.t = "omitted" THEN default ELSE v

\* Python truthiness, as tested by `if x:`
Truthy(v) ==
    CASE v.t = "str" -> v.s # <<>>
      [] v.t = "none" -> FALSE
      [] OTHER -> v.n # 0

\* `x is not None`
IsNotNone(v) == v.t # "none"

DigitChar(d) == <<"0", "1", "2", "3", "4", "5", "6", "7", "8", "9">>[d + 1]

RECURSIVE Digits(_)
Digits(k) == IF k < 10 THEN <<DigitChar(k)>>
             ELSE Append(Digits(k \div 10), DigitChar(k % 10))

\* str(v), as urlencode and f-strings apply it
PyStr(v) ==
    CASE v.t = "str" -> v.s
      [] v.t = "int" -> Digits(v.n)
      [] v.t = "float" -> Digits(v.n) \o <<".", "0">>
      [] OTHER -> <<"N", "o", "n", "e">>

\* the characters joined into one text
RECURSIVE Text(_)
Text(chars) == IF chars = <<>> THEN "" ELSE Head(chars) \o Text(Tail(chars))

\* ------------------------------------------------------------------------
\* urllib.parse.urlencode (quote_via = quote_plus)
\* ------------------------------------------------------------------------
Unreserved ==
    {"a", "b", "c", "d", "e", "f", "g", "h", "i", "j", "k", "l", "m", "n",
     "o", "p", "q", "r", "s", "t", "u", "v", "w", "x", "y", "z",
     "A", "B", "C", "D", "E", "F", "G", "H", "I", "J", "K", "L", "M", "N",
     "O", "P", "Q", "R", "S", "T", "U", "V", "W", "X", "Y", "Z",
     "0", "1", "2", "3", "4", "5", "6", "7", "8", "9", "_", ".", "-", "~"}

QuoteChar(c) ==
    CASE c \in Unreserved -> c
      [] c = " " -> "+"
      [] c = "&" -> "%26"
      [] c = "=" -> "%3D"
      [] c = "/" -> "%2F"
      [] c = "+" -> "%2B"

RECURSIVE QuotePlus(_)
QuotePlus(chars) ==
    IF chars = <<>> THEN "" ELSE QuoteChar(Head(chars)) \o QuotePlus(Tail(chars))

\* the field names of the program are made of unreserved characters only,
\* which quote_plus leaves as they are
EncodePair(kv) == kv[1] \o "=" \o QuotePlus(PyStr(kv[2]))

RECURSIVE urlencode(_)
urlencode(p) ==
    IF p = <<>> THEN ""
    ELSE IF Len(p) = 1 THEN EncodePair(p[1])
    ELSE EncodePair(p[1]) \o "&" \o urlencode(Tail(p))

\* ------------------------------------------------------------------------
\* dict operations on a payload
\* ------------------------------------------------------------------------
Keys(p) == {p[x][1] : x \in DOMAIN p}
HasKey(p, k) == k \in Keys(p)
Get(p, k) == p[CHOOSE x \in DOMAIN p : p[x][1] = k][2]

\* payload[k] = v
Put(p, k, v) ==
    IF HasKey(p, k)
    THEN [x \in DOMAIN p |-> IF p[x][1] = k THEN <<k, v>> ELSE p[x]]
    ELSE Append(p, <<k, v>>)

\* `if cond: payload[k] = v`
PutIf(cond, p, k, v) == IF cond THEN Put(p, k, v) ELSE p

\* ------------------------------------------------------------------------
\* State
\* ------------------------------------------------------------------------
VARIABLES
    env,        \* the process environment after load_dotenv()
    phase,      \* "init", "aborted", "loaded" (module imported), "serving"
    API_KEY,    \* module global, <<>> is None
    API_SECRET, \* module global, <<>> is None
    registered, \* names of the tools registered with FastMCP
    now,        \* wall clock, in microseconds
    pc,         \* per invocation: "idle", "posting", "awaiting", "done"
    call,       \* per invocation: the tool called and the arguments given
    given,      \* per invocation: the payload handed to _private_post
    payload,    \* per invocation: the payload dict after timestamp injection
    reading,    \* per invocation: the clock value time() returned
    request,    \* per invocation: the HTTP request built
    sent,       \* per invocation: number of HTTP requests issued
    response,   \* per invocation: the HTTP response received
    outcome     \* per invocation: how the invocation ended

vars == <<env, phase, API_KEY, API_SECRET, registered, now, pc, call, given,
          payload, reading, request, sent, response, outcome>>

creds == <<env, phase, API_KEY, API_SECRET, registered>>
slots == <<pc, call, given, payload, reading, request, sent, response, outcome>>

Invocations == 1 .. NumInv

INDODAX_API_URL == "https://indodax.com/tapi"
PUBLIC_API_BASE == "https://indodax.com/api"

PrivateTools ==
    {"get_info", "trans_history", "trade", "trade_history", "open_orders",
     "order_history", "get_order", "get_order_by_client_order_id",
     "cancel_order", "cancel_by_client_order_id", "withdraw_fee",
     "withdraw_coin", "list_downline", "check_downline", "create_voucher"}
PublicTools ==
    {"server_time", "pairs", "price_increments", "summaries", "ticker",
     "ticker_all", "trades"}
ToolNames == PrivateTools \cup PublicTools

NoCall == [tool |-> "none", args |-> <<>>]
NoRequest == [method |-> "none", url |-> "", headers |-> <<>>, data |-> ""]
NoResponse == [kind |-> "none", status |-> 0, body |-> ""]
NoOutcome == [kind |-> "none", value |-> <<>>, error |-> ""]
NoReading == -1

\* ------------------------------------------------------------------------
\* Module initialisation (lines 50-63) and entry point (lines 329-331)
\* ------------------------------------------------------------------------
\* os.getenv: <<>> when the variable is not set, <<value>> when it is
getenv(name) == env[name]

\* truthiness of an Optional[str]
TruthyOpt(x) == x # <<>> /\ x[1] # ""

\* Python `a or b`
PyOr(a, b) == IF TruthyOpt(a) THEN a ELSE b

LoadApiKey == getenv("INDODAX_API_KEY")
LoadApiSecretNoFallback == getenv("INDODAX_API_SECRET")
LoadApiSecret == PyOr(getenv("INDODAX_API_SECRET"), getenv("INDODAX_SECRET_KEY"))

\* `if not API_KEY or not API_SECRET: raise RuntimeError`
CredentialsMissing(k, s) == ~TruthyOpt(k) \/ ~TruthyOpt(s)

ModuleInit ==
    /\ phase = "init"
    /\ API_KEY' = LoadApiKey
    /\ API_SECRET' = LoadApiSecret
    /\ IF CredentialsMissing(LoadApiKey, LoadApiSecret)
       THEN phase' = "aborted" /\ registered' = {}
       ELSE phase' = "loaded" /\ registered' = ToolNames
    /\ UNCHANGED <<env, now, slots>>

\* mcp.run(transport="stdio")
Main ==
    /\ phase = "loaded"
    /\ phase' = "serving"
    /\ UNCHANGED <<env, API_KEY, API_SECRET, registered, now, slots>>

\* ------------------------------------------------------------------------
\* The wall clock
\* ------------------------------------------------------------------------
\* the clock advances by half a millisecond at a time
ClockSteps == {500}

Tick(d) ==
    /\ now < MaxTicks * d
    /\ now' = now + d
    /\ UNCHANGED <<creds, slots>>

\* int(time() * 1000), time() being `t` microseconds expressed in seconds
EpochSecondsAsMs(t) == (t \div 1000000) * 1000
EpochMs(t) == (t * 1000) \div 1000000

\* ------------------------------------------------------------------------
\* _private_post, up to the request it builds (lines 75-87)
\* ------------------------------------------------------------------------
\* hmac.new(key, msg, hashlib.sha512).hexdigest(), as a symbolic term
HmacSha512Hex(key, msg) == [alg |-> "HMAC-SHA512-hex", key |-> key, msg |-> msg]

NeedsTimestampEither(p) == ~HasKey(p, "timestamp") \/ ~HasKey(p, "nonce")
NeedsTimestamp(p) == ~HasKey(p, "timestamp") /\ ~HasKey(p, "nonce")

InjectTimestamp(p, t) ==
    IF NeedsTimestamp(p) THEN Put(p, "timestamp", IntV(EpochMs(t))) ELSE p

SignedRequestKeyedByApiKey(p, key, secret) ==
    [method |-> "POST", url |-> INDODAX_API_URL,
     headers |-> [Key |-> key, Sign |-> HmacSha512Hex(key, urlencode(p)),
                  ContentType |-> "application/x-www-form-urlencoded"],
     data |-> urlencode(p)]
SignedRequest(p, key, secret) ==
    [method |-> "POST", url |-> INDODAX_API_URL,
     headers |-> [Key |-> key, Sign |-> HmacSha512Hex(secret, urlencode(p)),
                  ContentType |-> "application/x-www-form-urlencoded"],
     data |-> urlencode(p)]

\* the payload dict belongs to the invocation that built it
StorePayloadShared(pl, i, q) == [j \in DOMAIN pl |-> q]
StorePayload(pl, i, q) == [pl EXCEPT ![i] = q]

\* a tool handler that delegates to _private_post with payload p
PrivatePost(i, tool, args, p) ==
    /\ pc[i] = "idle"
    /\ call' = [call EXCEPT ![i] = [tool |-> tool, args |-> args]]
    /\ given' = [given EXCEPT ![i] = p]
    /\ payload' = StorePayload(payload, i, InjectTimestamp(p, now))
    /\ reading' = [reading EXCEPT ![i] = IF NeedsTimestamp(p) THEN now ELSE NoReading]
    /\ request' = [request EXCEPT ![i] =
                      SignedRequest(payload'[i], API_KEY[1], API_SECRET[1])]
    /\ pc' = [pc EXCEPT ![i] = "posting"]
    /\ UNCHANGED <<creds, now, sent, response, outcome>>

\* ------------------------------------------------------------------------
\* _public_get, up to the request it builds (line 101)
\* ------------------------------------------------------------------------
PublicUrl(path) == PUBLIC_API_BASE \o "/" \o path

PublicGet(i, tool, args, path) ==
    /\ pc[i] = "idle"
    /\ call' = [call EXCEPT ![i] = [tool |-> tool, args |-> args]]
    /\ request' = [request EXCEPT ![i] =
                      [method |-> "GET", url |-> PublicUrl(path),
                       headers |-> <<>>, data |-> ""]]
    /\ pc' = [pc EXCEPT ![i] = "posting"]
    /\ UNCHANGED <<creds, now, given, payload, reading, sent, response, outcome>>

\* a tool is callable once the server serves and the tool is registered
Served(tool) == phase = "serving" /\ tool \in registered

\* ------------------------------------------------------------------------
\* Tool adapters: the payload each private tool builds (lines 148-322)
\* ------------------------------------------------------------------------
Method(chars) == <<"method", StrV(chars)>>

GetInfoPayload == <<Method(<<"g", "e", "t", "I", "n", "f", "o">>)>>

TransHistoryPayload(start, end) ==
    LET p0 == <<Method(<<"t", "r", "a", "n", "s", "H", "i", "s", "t", "o", "r", "y">>)>>
        p1 == PutIf(Truthy(start), p0, "start", start)
    IN  PutIf(Truthy(end), p1, "end", end)

TradePayload(pair, type, price, idr, crypto) ==
    LET p0 == <<Method(<<"t", "r", "a", "d", "e">>), <<"pair", pair>>, <<"type", type>>,
                <<"price", price>>>>
        p1 == PutIf(IsNotNone(idr), p0, "idr", idr)
    IN  PutIf(IsNotNone(crypto), p1, "crypto", crypto)

\* trade_history and order_history build the same payload but for `method`
HistoryPayload(method, pair, count, from_id, end_id, order) ==
    LET p0 == <<Method(method), <<"count", count>>, <<"order", order>>>>
        p1 == PutIf(Truthy(pair), p0, "pair", pair)
        p2 == PutIf(IsNotNone(from_id), p1, "from", from_id)
    IN  PutIf(IsNotNone(end_id), p2, "end", end_id)

TradeHistoryPayload(pair, count, from_id, end_id, order) ==
    HistoryPayload(<<"t", "r", "a", "d", "e", "H", "i", "s", "t", "o", "r", "y">>, pair, count, from_id, end_id, order)

OrderHistoryPayload(pair, count, from_id, end_id, order) ==
    HistoryPayload(<<"o", "r", "d", "e", "r", "H", "i", "s", "t", "o", "r", "y">>, pair, count, from_id, end_id, order)

OpenOrdersPayloadAlways(pair) ==
    Put(<<Method(<<"o", "p", "e", "n", "O", "r", "d", "e", "r", "s">>)>>, "pair", pair)
OpenOrdersPayload(pair) ==
    PutIf(Truthy(pair), <<Method(<<"o", "p", "e", "n", "O", "r", "d", "e", "r", "s">>)>>, "pair", pair)

GetOrderPayload(order_id) ==
    <<Method(<<"g", "e", "t", "O", "r", "d", "e", "r">>), <<"order_id", order_id>>>>

GetOrderByClientOrderIdPayload(client_order_id) ==
    <<Method(<<"g", "e", "t", "O", "r", "d", "e", "r", "B", "y", "C", "l", "i", "e", "n", "t", "O", "r", "d", "e", "r", "I", "d">>), <<"client_order_id", client_order_id>>>>

CancelOrderPayload(order_id) ==
    <<Method(<<"c", "a", "n", "c", "e", "l", "O", "r", "d", "e", "r">>), <<"order_id", order_id>>>>

CancelByClientOrderIdPayload(client_order_id) ==
    <<Method(<<"c", "a", "n", "c", "e", "l", "B", "y", "C", "l", "i", "e", "n", "t", "O", "r", "d", "e", "r", "I", "d">>), <<"client_order_id", client_order_id>>>>

WithdrawFeePayload(currency, amount, address, network) ==
    PutIf(Truthy(network),
          <<Method(<<"w", "i", "t", "h", "d", "r", "a", "w", "F", "e", "e">>), <<"currency", currency>>,
            <<"amount", amount>>, <<"address", address>>>>,
          "network", network)

WithdrawCoinPayload(currency, amount, address, network, memo) ==
    LET p0 == <<Method(<<"w", "i", "t", "h", "d", "r", "a", "w", "C", "o", "i", "n">>), <<"currency", currency>>,
                <<"amount", amount>>, <<"address", address>>>>
        p1 == PutIf(Truthy(network), p0, "network", network)
    IN  PutIf(Truthy(memo), p1, "memo", memo)

ListDownlinePayload == <<Method(<<"l", "i", "s", "t", "D", "o", "w", "n", "l", "i", "n", "e">>)>>

CheckDownlinePayload(username) ==
    <<Method(<<"c", "h", "e", "c", "k", "D", "o", "w", "n", "l", "i", "n", "e">>), <<"username", username>>>>

CreateVoucherPayload(amount, description) ==
    PutIf(Truthy(description),
          <<Method(<<"c", "r", "e", "a", "t", "e", "V", "o", "u", "c", "h", "e", "r">>), <<"amount", amount>>>>,
          "description", description)

\* declared defaults of trade_history and order_history
DefaultCount == IntV(100)
DefaultOrder == StrV(<<"d", "e", "s", "c">>)

\* ------------------------------------------------------------------------
\* Public tools: the path each builds (lines 107-142)
\* ------------------------------------------------------------------------
\* f"{name}/{pair_id}" if pair_id else name
PairPathAlways(name, pair_id) == name \o "/" \o Text(PyStr(pair_id))
PairPath(name, pair_id) ==
    IF Truthy(pair_id) THEN name \o "/" \o Text(PyStr(pair_id)) ELSE name

\* ------------------------------------------------------------------------
\* Tool handlers: each runs its adapter and _private_post or _public_get up
\* to the point where the HTTP client is entered
\* ------------------------------------------------------------------------
get_info(i) ==
    Served("get_info") /\ PrivatePost(i, "get_info", <<>>, GetInfoPayload)

trans_history(i, start, end) ==
    /\ Served("trans_history")
    /\ PrivatePost(i, "trans_history", [start |-> start, end |-> end],
                   TransHistoryPayload(Bind(start, None), Bind(end, None)))

trade(i, pair, type, price, idr, crypto) ==
    /\ Served("trade")
    /\ PrivatePost(i, "trade",
                   [pair |-> pair, type |-> type, price |-> price,
                    idr |-> idr, crypto |-> crypto],
                   TradePayload(pair, type, price, Bind(idr, None),
                                Bind(crypto, None)))

trade_history(i, pair, count, from_id, end_id, order) ==
    /\ Served("trade_history")
    /\ PrivatePost(i, "trade_history",
                   [pair |-> pair, count |-> count, from_id |-> from_id,
                    end_id |-> end_id, order |-> order],
                   TradeHistoryPayload(Bind(pair, None), Bind(count, DefaultCount),
                                       Bind(from_id, None), Bind(end_id, None),
                                       Bind(order, DefaultOrder)))

open_orders(i, pair) ==
    /\ Served("open_orders")
    /\ PrivatePost(i, "open_orders", [pair |-> pair],
                   OpenOrdersPayload(Bind(pair, None)))

order_history(i, pair, count, from_id, end_id, order) ==
    /\ Served("order_history")
    /\ PrivatePost(i, "order_history",
                   [pair |-> pair, count |-> count, from_id |-> from_id,
                    end_id |-> end_id, order |-> order],
                   OrderHistoryPayload(Bind(pair, None), Bind(count, DefaultCount),
                                       Bind(from_id, None), Bind(end_id, None),
                                       Bind(order, DefaultOrder)))

get_order(i, order_id) ==
    /\ Served("get_order")
    /\ PrivatePost(i, "get_order", [order_id |-> order_id],
                   GetOrderPayload(order_id))

get_order_by_client_order_id(i, client_order_id) ==
    /\ Served("get_order_by_client_order_id")
    /\ PrivatePost(i, "get_order_by_client_order_id",
                   [client_order_id |-> client_order_id],
                   GetOrderByClientOrderIdPayload(client_order_id))

cancel_order(i, order_id) ==
    /\ Served("cancel_order")
    /\ PrivatePost(i, "cancel_order", [order_id |-> order_id],
                   CancelOrderPayload(order_id))

cancel_by_client_order_id(i, client_order_id) ==
    /\ Served("cancel_by_client_order_id")
    /\ PrivatePost(i, "cancel_by_client_order_id",
                   [client_order_id |-> client_order_id],
                   CancelByClientOrderIdPayload(client_order_id))

withdraw_fee(i, currency, amount, address, network) ==
    /\ Served("withdraw_fee")
    /\ PrivatePost(i, "withdraw_fee",
                   [currency |-> currency, amount |-> amount,
                    address |-> address, network |-> network],
                   WithdrawFeePayload(currency, amount, address,
                                      Bind(network, None)))

withdraw_coin(i, currency, amount, address, network, memo) ==
    /\ Served("withdraw_coin")
    /\ PrivatePost(i, "withdraw_coin",
                   [currency |-> currency, amount |-> amount,
                    address |-> address, network |-> network, memo |-> memo],
                   WithdrawCoinPayload(currency, amount, address,
                                       Bind(network, None), Bind(memo, None)))

list_downline(i) ==
    Served("list_downline") /\ PrivatePost(i, "list_downline", <<>>, ListDownlinePayload)

check_downline(i, username) ==
    /\ Served("check_downline")
    /\ PrivatePost(i, "check_downline", [username |-> username],
                   CheckDownlinePayload(username))

create_voucher(i, amount, description) ==
    /\ Served("create_voucher")
    /\ PrivatePost(i, "create_voucher",
                   [amount |-> amount, description |-> description],
                   CreateVoucherPayload(amount, Bind(description, None)))

server_time(i) ==
    Served("server_time") /\ PublicGet(i, "server_time", <<>>, "server_time")

pairs(i) ==
    Served("pairs") /\ PublicGet(i, "pairs", <<>>, "pairs")

price_increments(i) ==
    Served("price_increments")
    /\ PublicGet(i, "price_increments", <<>>, "price_increments")

summaries(i) ==
    Served("summaries") /\ PublicGet(i, "summaries", <<>>, "summaries")

ticker(i, pair_id) ==
    /\ Served("ticker")
    /\ PublicGet(i, "ticker", [pair_id |-> pair_id],
                 PairPath("ticker", Bind(pair_id, None)))

ticker_all(i) ==
    Served("ticker_all") /\ PublicGet(i, "ticker_all", <<>>, "ticker_all")

trades(i, pair_id) ==
    /\ Served("trades")
    /\ PublicGet(i, "trades", [pair_id |-> pair_id],
                 PairPath("trades", Bind(pair_id, None)))

\* _private_post called by code that imported the module, with its own payload
private_post(i, p) ==
    /\ phase \in {"loaded", "serving"}
    /\ PrivatePost(i, "_private_post", [payload |-> p], p)

\* ------------------------------------------------------------------------
\* The HTTP exchange (lines 89-92 and 102-105)
\* ------------------------------------------------------------------------
\* client.post / client.get puts the request on the wire
Post(i) ==
    /\ pc[i] = "posting"
    /\ sent' = [sent EXCEPT ![i] = @ + 1]
    /\ pc' = [pc EXCEPT ![i] = "awaiting"]
    /\ UNCHANGED <<creds, now, call, given, payload, reading, request,
                   response, outcome>>

HttpResponse(status, body) == [kind |-> "http", status |-> status, body |-> body]
\* DNS failure, timeout, TLS failure: client.post raises
NetworkError == [kind |-> "neterr", status |-> 0, body |-> ""]

BodyOk == "{\"success\":1,\"return\":{}}"
BodyExchangeError == "{\"success\":0,\"error\":\"Invalid credentials\"}"
BodyHtml == "<html>Bad Gateway</html>"

\* Response.json()
IsJson(text) == text \in {BodyOk, BodyExchangeError}
JsonLoads(text) ==
    CASE text = BodyOk -> [success |-> 1, return |-> <<>>]
      [] text = BodyExchangeError -> [success |-> 0, error |-> "Invalid credentials"]

\* Response.is_success
Is2xx(status) == 200 <= status /\ status <= 299

\* Response.raise_for_status() raises HTTPStatusError
RaisesOnlyOn4xx5xx(r) == r.status >= 400
RaisesForStatus(r) == ~Is2xx(r.status)

Returned(v) == [kind |-> "returned", value |-> <<v>>, error |-> ""]
Failed(exc) == [kind |-> "failed", value |-> <<>>, error |-> exc]

\* the rest of the handler once the awaited call completes
CompleteMappingExchangeErrors(r) ==
    IF r.kind = "neterr" THEN Failed("RequestError")
    ELSE IF RaisesForStatus(r) THEN Failed("HTTPStatusError")
    ELSE IF ~IsJson(r.body) THEN Failed("JSONDecodeError")
    ELSE IF JsonLoads(r.body).success = 0 THEN Failed("ExchangeError")
    ELSE Returned(JsonLoads(r.body))
Complete(r) ==
    IF r.kind = "neterr" THEN Failed("RequestError")
    ELSE IF RaisesForStatus(r) THEN Failed("HTTPStatusError")
    ELSE IF ~IsJson(r.body) THEN Failed("JSONDecodeError")
    ELSE Returned(JsonLoads(r.body))

\* where the handler goes once the awaited call completes: it returns or
\* raises, it never loops
AfterResponseRetrying(r) == IF Complete(r).kind = "failed" THEN "posting" ELSE "done"
AfterResponse(r) == "done"

Receive(i, r) ==
    /\ pc[i] = "awaiting"
    /\ response' = [response EXCEPT ![i] = r]
    /\ outcome' = [outcome EXCEPT ![i] = Complete(r)]
    /\ pc' = [pc EXCEPT ![i] = AfterResponse(r)]
    /\ UNCHANGED <<creds, now, call, given, payload, reading, request, sent>>

\* ------------------------------------------------------------------------
\* Inputs
\* ------------------------------------------------------------------------
Environment(k, s, l) ==
    [INDODAX_API_KEY |-> k, INDODAX_API_SECRET |-> s, INDODAX_SECRET_KEY |-> l]

\* a variable is not set, set to the empty string, or set to v
EnvValues(v) == {<<>>, <<"">>, <<v>>}

AllEnvironments ==
    {Environment(k, s, l) : k \in EnvValues("key-1"), s \in EnvValues("s3cr3t"),
                            l \in EnvValues("legacy-s3cr3t")}

ConfiguredEnvironment == Environment(<<"key-1">>, <<"s3cr3t">>, <<>>)

BtcIdr == StrV(<<"b", "t", "c", "_", "i", "d", "r">>)
EmptyStr == StrV(<<>>)

\* what a caller may pass for an optional parameter: nothing, null, a value
Optional(values) == {Omitted, None} \cup values

PairArgs == Optional({EmptyStr, BtcIdr})
DateArgs == Optional({EmptyStr, StrV(<<"2", "0", "2", "4", "-", "0", "1", "-", "3", "1">>)})
AmountArgs == Optional({FloatV(0), FloatV(5)})
IdArgs == Optional({IntV(0)})
CountArgs == {Omitted, IntV(0), IntV(5)}
OrderArgs == {Omitted, StrV(<<"a", "s", "c">>)}
NetworkArgs == Optional({EmptyStr, StrV(<<"e", "r", "c", "2", "0">>)})
TextArgs == Optional({EmptyStr, StrV(<<"a", " ", "b", "&", "c", "=", "d">>)})

Btc == StrV(<<"b", "t", "c">>)
Buy == StrV(<<"b", "u", "y">>)
Price == FloatV(5)
Address == StrV(<<"b", "c", "1", "q", "/", "x">>)
OrderId == IntV(42)
ClientOrderId == StrV(<<"c", "i", "d", "-", "1">>)
Username == StrV(<<"a", "l", "i", "c", "e">>)

\* payloads handed to _private_post by code that calls it directly
DirectPayloads ==
    {GetInfoPayload,
     <<Method(<<"g", "e", "t", "I", "n", "f", "o">>), <<"nonce", StrV(<<"1">>)>>>>,
     <<Method(<<"g", "e", "t", "I", "n", "f", "o">>), <<"nonce", IntV(7)>>, <<"pair", BtcIdr>>>>,
     <<Method(<<"g", "e", "t", "I", "n", "f", "o">>), <<"timestamp", IntV(5)>>>>,
     <<<<"timestamp", IntV(5)>>, <<"nonce", IntV(7)>>, Method(<<"g", "e", "t", "I", "n", "f", "o">>)>>}

Statuses == {200, 204, 302, 500}
Bodies == {BodyOk, BodyExchangeError, BodyHtml}
AllResponses ==
    {HttpResponse(st, b) : st \in Statuses, b \in Bodies} \cup {NetworkError}
FewResponses ==
    {HttpResponse(200, BodyOk), HttpResponse(200, BodyExchangeError), HttpResponse(500, BodyHtml), NetworkError}

\* ------------------------------------------------------------------------
\* Specifications
\* ------------------------------------------------------------------------
InitWith(envs) ==
    /\ env \in envs
    /\ phase = "init"
    /\ API_KEY = <<>>
    /\ API_SECRET = <<>>
    /\ registered = {}
    /\ now = 0
    /\ pc = [i \in Invocations |-> "idle"]
    /\ call = [i \in Invocations |-> NoCall]
    /\ given = [i \in Invocations |-> <<>>]
    /\ payload = [i \in Invocations |-> <<>>]
    /\ reading = [i \in Invocations |-> NoReading]
    /\ request = [i \in Invocations |-> NoRequest]
    /\ sent = [i \in Invocations |-> 0]
    /\ response = [i \in Invocations |-> NoResponse]
    /\ outcome = [i \in Invocations |-> NoOutcome]

\* Concurrent invocations of a few tools
Init == InitWith({ConfiguredEnvironment})

Next ==
    \/ ModuleInit
    \/ Main
    \/ \E d \in ClockSteps : Tick(d)
    \/ \E i \in Invocations : get_info(i)
    \/ \E i \in Invocations : open_orders(i, BtcIdr)
    \/ \E i \in Invocations : ticker(i, Omitted)
    \/ \E i \in Invocations : Post(i)
    \/ \E i \in Invocations, r \in FewResponses : Receive(i, r)

Spec == Init /\ [][Next]_vars

\* One invocation at a time, of every tool with every shape of arguments
NextTools ==
    \/ ModuleInit
    \/ Main
    \/ \E d \in ClockSteps : Tick(d)
    \/ get_info(1)
    \/ \E start \in DateArgs, end \in DateArgs : trans_history(1, start, end)
    \/ \E idr \in AmountArgs, crypto \in AmountArgs :
           trade(1, BtcIdr, Buy, Price, idr, crypto)
    \/ \E pair \in PairArgs, count \in CountArgs, from_id \in IdArgs,
          end_id \in IdArgs, order \in OrderArgs :
           trade_history(1, pair, count, from_id, end_id, order)
    \/ \E pair \in PairArgs : open_orders(1, pair)
    \/ \E pair \in PairArgs, count \in CountArgs, from_id \in IdArgs,
          end_id \in IdArgs, order \in OrderArgs :
           order_history(1, pair, count, from_id, end_id, order)
    \/ get_order(1, OrderId)
    \/ get_order_by_client_order_id(1, ClientOrderId)
    \/ cancel_order(1, OrderId)
    \/ cancel_by_client_order_id(1, ClientOrderId)
    \/ \E network \in NetworkArgs : withdraw_fee(1, Btc, Price, Address, network)
    \/ \E network \in NetworkArgs, memo \in TextArgs :
           withdraw_coin(1, Btc, Price, Address, network, memo)
    \/ list_downline(1)
    \/ check_downline(1, Username)
    \/ \E description \in TextArgs : create_voucher(1, Price, description)
    \/ server_time(1)
    \/ pairs(1)
    \/ price_increments(1)
    \/ summaries(1)
    \/ \E pair_id \in PairArgs : ticker(1, pair_id)
    \/ ticker_all(1)
    \/ \E pair_id \in PairArgs : trades(1, pair_id)
    \/ \E p \in DirectPayloads : private_post(1, p)
    \/ Post(1)
    \/ \E r \in AllResponses : Receive(1, r)

SpecTools == Init /\ [][NextTools]_vars

\* Start-up under every environment, then one invocation
InitStartup == InitWith(AllEnvironments)

NextStartup ==
    \/ ModuleInit
    \/ Main
    \/ \E d \in ClockSteps : Tick(d)
    \/ get_info(1)
    \/ ticker(1, BtcIdr)
    \/ Post(1)
    \/ \E r \in FewResponses : Receive(1, r)

SpecStartup == InitStartup /\ [][NextStartup]_vars

\* ------------------------------------------------------------------------
\* Properties
\* ------------------------------------------------------------------------
Private(i) == call[i].tool \in PrivateTools \cup {"_private_post"}
Built(i) == pc[i] # "idle"
Done(i) == pc[i] = "done"
LacksBoth(p) == \A x \in DOMAIN p : p[x][1] \notin {"nonce", "timestamp"}
\* the caller passed a value for the parameter
Supplied(v) == v.t \notin {"omitted", "none"}

\* C1: the Sign header of every private request is the hex HMAC-SHA512,
\* keyed by the configured secret, of the body transmitted in that request,
\* and that body is the serialization of the payload after timestamp
\* injection.
C1_SignCoversTransmittedBody ==
    \A i \in Invocations :
        (Built(i) /\ Private(i)) =>
            /\ request[i].method = "POST"
            /\ request[i].headers.Sign =
                   [alg |-> "HMAC-SHA512-hex", key |-> API_SECRET[1],
                    msg |-> request[i].data]
            /\ request[i].data = urlencode(payload[i])
            /\ LacksBoth(given[i]) => HasKey(payload[i], "timestamp")

C1_Witness ==
    \E i \in Invocations :
        /\ call[i].tool = "withdraw_coin"
        /\ sent[i] = 1
        /\ HasKey(payload[i], "memo")
        /\ HasKey(payload[i], "timestamp")
        /\ request[i].data =
               "method=withdrawCoin&currency=btc&amount=5.0&address=bc1q%2Fx"
               \o "&memo=a+b%26c%3Dd&timestamp=1"

\* C2: a payload lacking both nonce and timestamp is dispatched with exactly
\* one field added at the end, timestamp, holding the clock reading of the
\* call in whole milliseconds, every other field unchanged; a payload that
\* has nonce or timestamp is dispatched as given.
C2_TimestampInjection ==
    \A i \in Invocations :
        (Built(i) /\ Private(i)) =>
            /\ request[i].data = urlencode(payload[i])
            /\ IF LacksBoth(given[i])
               THEN /\ Len(payload[i]) = Len(given[i]) + 1
                    /\ SubSeq(payload[i], 1, Len(given[i])) = given[i]
                    /\ payload[i][Len(payload[i])][1] = "timestamp"
                    /\ payload[i][Len(payload[i])][2].t = "int"
                    /\ 0 <= reading[i] /\ reading[i] <= now
                    /\ LET ms == payload[i][Len(payload[i])][2].n
                       IN  ms * 1000 <= reading[i] /\ reading[i] < (ms + 1) * 1000
               ELSE payload[i] = given[i]

C2_Witness ==
    \E i \in Invocations :
        /\ Private(i)
        /\ sent[i] = 1
        /\ LacksBoth(given[i])
        /\ reading[i] = 1000
        /\ Get(payload[i], "timestamp") = IntV(1)

\* a payload that carries a nonce is dispatched untouched
C2_WitnessNonce ==
    \E i \in Invocations :
        /\ call[i].tool = "_private_post"
        /\ sent[i] = 1
        /\ HasKey(given[i], "nonce")
        /\ request[i].data = "method=getInfo&nonce=1"

\* C3: an invocation whose HTTP response has a status outside 200..299 ends
\* failed and returns no value, for private and public tools alike.
C3_NonSuccessStatusFails ==
    \A i \in Invocations :
        (Done(i) /\ response[i].kind = "http"
                 /\ (response[i].status < 200 \/ response[i].status > 299)) =>
            /\ outcome[i].kind = "failed"
            /\ outcome[i].value = <<>>

C3_Witness ==
    \E i \in Invocations :
        /\ Done(i)
        /\ Private(i)
        /\ response[i] = HttpResponse(500, BodyOk)
        /\ outcome[i].kind = "failed"

\* C4: an invocation whose HTTP response has a 2xx status and a JSON body
\* returns the parsed body unchanged, also when the body encodes an
\* exchange-side error; whatever such an invocation returns is the parsed
\* body.
C4_SuccessReturnsParsedBody ==
    \A i \in Invocations :
        (Done(i) /\ response[i].kind = "http"
                 /\ response[i].status >= 200 /\ response[i].status <= 299) =>
            /\ outcome[i].kind = "returned" => IsJson(response[i].body)
            /\ response[i].body = BodyOk =>
                   outcome[i] = Returned([success |-> 1, return |-> <<>>])
            /\ response[i].body = BodyExchangeError =>
                   outcome[i] =
                       Returned([success |-> 0, error |-> "Invalid credentials"])

C4_Witness ==
    \E i \in Invocations :
        /\ Done(i)
        /\ call[i].tool = "get_info"
        /\ response[i] = HttpResponse(200, BodyExchangeError)
        /\ outcome[i].kind = "returned"
        /\ outcome[i].value[1].success = 0

\* C5: every invocation issues exactly one HTTP request and ends returned or
\* failed: no request is issued before the handler reaches the client, one
\* has been issued while it awaits, a response always completes it, and a
\* completed invocation has issued one request, failure included.
C5_ExactlyOneRequest ==
    \A i \in Invocations :
        /\ sent[i] <= 1
        /\ pc[i] \in {"idle", "posting"} => sent[i] = 0
        /\ pc[i] = "posting" => ENABLED Post(i)
        /\ pc[i] = "awaiting" =>
               sent[i] = 1 /\ \A r \in FewResponses : ENABLED Receive(i, r)
        /\ Done(i) => sent[i] = 1 /\ outcome[i].kind \in {"returned", "failed"}
        /\ ~Done(i) => outcome[i].kind = "none"

C5_Witness ==
    \E i, j \in Invocations :
        /\ i # j
        /\ Done(i) /\ response[i] = NetworkError /\ outcome[i].kind = "failed"
        /\ Done(j) /\ response[j].status = 500 /\ outcome[j].kind = "failed"
        /\ sent[i] = 1 /\ sent[j] = 1

\* a variable of the environment is set to a non-empty value
Present(x) == x # <<>> /\ x # <<"">>

\* C6: once module initialisation has run, start-up has aborted, with no
\* tool registered and no invocation ever accepted, exactly when the API key
\* is absent or empty or the secret is absent or empty under both names;
\* otherwise every tool is registered and the server is loaded or serving.
\* No invocation is accepted before the server serves.
C6_StartupRequiresCredentials ==
    /\ phase # "init" =>
           IF /\ Present(env.INDODAX_API_KEY)
              /\ \/ Present(env.INDODAX_API_SECRET)
                 \/ Present(env.INDODAX_SECRET_KEY)
           THEN phase \in {"loaded", "serving"} /\ registered = ToolNames
           ELSE phase = "aborted" /\ registered = {}
    /\ phase # "serving" => \A i \in Invocations : pc[i] = "idle" /\ sent[i] = 0

C6_Witness ==
    /\ phase = "serving"
    /\ env.INDODAX_API_SECRET = <<"">>
    /\ env.INDODAX_SECRET_KEY = <<"legacy-s3cr3t">>
    /\ API_SECRET = <<"legacy-s3cr3t">>
    /\ \E i \in Invocations : Done(i) /\ call[i].tool = "get_info"

\* start-up aborts when the secret is missing under both names
C6_WitnessAborted ==
    /\ phase = "aborted"
    /\ Present(env.INDODAX_API_KEY)
    /\ env.INDODAX_API_SECRET = <<>>
    /\ env.INDODAX_SECRET_KEY = <<"">>

\* C7: concurrent invocations do not interfere: the credential pair never
\* changes once module initialisation has run; a step leaves untouched
\* everything that belongs to an invocation which did not take it; two
\* invocations with the same tool, arguments and clock reading send the same
\* request, keyed and signed with the loaded credentials, and two with the
\* same HTTP response end the same way.
C7_NonInterference ==
    /\ [][phase # "init" => (API_KEY' = API_KEY /\ API_SECRET' = API_SECRET)]_vars
    /\ [][\A j \in Invocations :
              pc'[j] = pc[j] =>
                  /\ call'[j] = call[j]
                  /\ given'[j] = given[j]
                  /\ payload'[j] = payload[j]
                  /\ reading'[j] = reading[j]
                  /\ request'[j] = request[j]
                  /\ sent'[j] = sent[j]
                  /\ response'[j] = response[j]
                  /\ outcome'[j] = outcome[j]]_vars
    /\ [](\A i, j \in Invocations :
              /\ (Built(i) /\ Private(i)) => request[i].headers.Key = API_KEY[1]
              /\ (/\ Built(i) /\ Built(j)
                  /\ call[i].tool = call[j].tool
                  /\ call[i].args = call[j].args
                  /\ reading[i] = reading[j]) => request[i] = request[j]
              /\ (Done(i) /\ Done(j) /\ response[i] = response[j]) =>
                     outcome[i] = outcome[j])

C7_Witness ==
    \E i, j \in Invocations :
        /\ call[i].tool = "get_info" /\ pc[i] = "awaiting"
        /\ call[j].tool = "open_orders" /\ pc[j] = "posting"
        /\ reading[i] = reading[j]
        /\ request[i].data = "method=getInfo&timestamp=0"
        /\ request[j].data = "method=openOrders&pair=btc_idr&timestamp=0"

\* the fields an adapter adds for optional parameters, as <<parameter, field>>
OptionalStringFields(tool) ==
    CASE tool = "trans_history" -> {<<"start", "start">>, <<"end", "end">>}
      [] tool \in {"trade_history", "order_history", "open_orders"} ->
             {<<"pair", "pair">>}
      [] tool = "withdraw_fee" -> {<<"network", "network">>}
      [] tool = "withdraw_coin" -> {<<"network", "network">>, <<"memo", "memo">>}
      [] tool = "create_voucher" -> {<<"description", "description">>}
      [] OTHER -> {}

OptionalNumberFields(tool) ==
    CASE tool = "trade" -> {<<"idr", "idr">>, <<"crypto", "crypto">>}
      [] tool \in {"trade_history", "order_history"} ->
             {<<"from_id", "from">>, <<"end_id", "end">>}
      [] OTHER -> {}

DefaultedFields(tool) ==
    IF tool \in {"trade_history", "order_history"}
    THEN {<<"count", "count", IntV(100)>>, <<"order", "order", StrV(<<"d", "e", "s", "c">>)>>}
    ELSE {}

\* C8 as stated: an optional field is in the payload exactly when the caller
\* supplied the parameter, count and order of the history tools included.
C8_OptionalFieldIffSupplied ==
    \A i \in Invocations :
        (Built(i) /\ call[i].tool \in PrivateTools) =>
            \A f \in OptionalStringFields(call[i].tool)
                         \cup OptionalNumberFields(call[i].tool)
                         \cup {<<d[1], d[2]>> : d \in DefaultedFields(call[i].tool)} :
                HasKey(given[i], f[2]) <=> Supplied(call[i].args[f[1]])

\* C8 as amended: a string-valued optional field is in the payload exactly
\* when the caller supplied a non-empty string; a numeric one (idr, crypto,
\* from, end of the history tools) exactly when the caller supplied a number,
\* zero included; count and order of the history tools are always in the
\* payload, with the defaults 100 and desc when the caller omitted them; a
\* field that is present holds the caller's value, and none holds null.
C8_OptionalFieldPresence ==
    \A i \in Invocations :
        (Built(i) /\ call[i].tool \in PrivateTools) =>
            /\ \A f \in OptionalStringFields(call[i].tool) :
                   LET a == call[i].args[f[1]]
                   IN  /\ HasKey(given[i], f[2]) <=> (Supplied(a) /\ a.s # <<>>)
                       /\ HasKey(given[i], f[2]) => Get(given[i], f[2]) = a
            /\ \A f \in OptionalNumberFields(call[i].tool) :
                   LET a == call[i].args[f[1]]
                   IN  /\ HasKey(given[i], f[2]) <=> Supplied(a)
                       /\ HasKey(given[i], f[2]) => Get(given[i], f[2]) = a
            /\ \A f \in DefaultedFields(call[i].tool) :
                   LET a == call[i].args[f[1]]
                   IN  /\ HasKey(given[i], f[2])
                       /\ Get(given[i], f[2]) = IF Supplied(a) THEN a ELSE f[3]
            /\ \A x \in DOMAIN given[i] : given[i][x][2].t \in {"str", "int", "float"}

C8_Witness ==
    \E i \in Invocations :
        /\ call[i].tool = "trade_history"
        /\ sent[i] = 1
        /\ call[i].args.count = Omitted
        /\ call[i].args.pair = EmptyStr
        /\ call[i].args.from_id = IntV(0)
        /\ request[i].data = "method=tradeHistory&count=100&order=desc&from=0&timestamp=0"

\* C9 as stated: no two requests with an injected timestamp carry the same
\* timestamp value.
C9_InjectedTimestampsDistinct ==
    \A i, j \in Invocations :
        (i # j /\ reading[i] # NoReading /\ reading[j] # NoReading) =>
            Get(payload[i], "timestamp") # Get(payload[j], "timestamp")

\* C9 as amended: two requests with an injected timestamp carry different
\* timestamp values whenever their clock readings are at least one
\* millisecond apart, and the later reading never carries the smaller value.
C9_TimestampsDistinctAMillisecondApart ==
    \A i, j \in Invocations :
        (i # j /\ reading[i] # NoReading /\ reading[j] # NoReading) =>
            /\ reading[i] + 1000 <= reading[j] =>
                   Get(payload[i], "timestamp").n < Get(payload[j], "timestamp").n
            /\ reading[i] <= reading[j] =>
                   Get(payload[i], "timestamp").n <= Get(payload[j], "timestamp").n

C9_Witness ==
    \E i, j \in Invocations :
        /\ sent[i] = 1 /\ sent[j] = 1
        /\ reading[i] = 0 /\ reading[j] = 1000
        /\ Get(payload[i], "timestamp") = IntV(0)
        /\ Get(payload[j], "timestamp") = IntV(1)

\* C10 as stated: ticker and trades go to the base URL followed by the tool
\* name when no pair_id is supplied, and by name/P for every supplied P.
C10_PairPathForEverySupplied ==
    \A i \in Invocations :
        (Built(i) /\ call[i].tool \in {"ticker", "trades"}) =>
            request[i].url =
                IF Supplied(call[i].args.pair_id)
                THEN "https://indodax.com/api/" \o call[i].tool \o "/"
                         \o Text(call[i].args.pair_id.s)
                ELSE "https://indodax.com/api/" \o call[i].tool

\* C10 as amended: ticker and trades go to the base URL followed by name/P
\* for every supplied non-empty pair_id P, and by the tool name alone when
\* pair_id is omitted, null or the empty string; the request is a GET without
\* headers or body.
C10_PairPathForNonEmpty ==
    \A i \in Invocations :
        (Built(i) /\ call[i].tool \in {"ticker", "trades"}) =>
            /\ request[i].method = "GET"
            /\ request[i].headers = <<>> /\ request[i].data = ""
            /\ request[i].url =
                   IF Supplied(call[i].args.pair_id) /\ call[i].args.pair_id.s # <<>>
                   THEN "https://indodax.com/api/" \o call[i].tool \o "/"
                            \o Text(call[i].args.pair_id.s)
                   ELSE "https://indodax.com/api/" \o call[i].tool

C10_Witness ==
    \E i \in Invocations :
        /\ call[i].tool = "ticker"
        /\ sent[i] = 1
        /\ call[i].args.pair_id = BtcIdr
        /\ request[i].url = "https://indodax.com/api/ticker/btc_idr"
====
